---- MODULE Spec2Model ----
(***************************************************************************)
(* Aniweek (src/main.go): one linear pipeline                              *)
(*   json.Marshal -> http.Post -> ioutil.ReadAll -> json.Unmarshal         *)
(*   -> organizeShowsByDay -> "no episodes" | renderOutput                 *)
(* The response body is an abstract JSON document, the decoder follows     *)
(* encoding/json's rules for structs and slices, time values are epoch     *)
(* seconds converted to and from civil dates, and the report is the        *)
(* sequence of lines written to standard output.                           *)
(***************************************************************************)
EXTENDS Integers, Sequences, FiniteSets, TLC

VARIABLES pc, err, body, bodyOpen, posts, schedules, showsByDay, days, output

vars == <<pc, err, body, bodyOpen, posts, schedules, showsByDay, days, output>>

(* Largest number of airing records in a response the model explores. *)
MaxLen == 3

----------------------------------------------------------------------------
(* time package: epoch seconds <-> UTC civil date *)

SecondsPerDay == 86400

(* Days since 1970-01-01 of an epoch second (floor, also before 1970). *)
UnixDays(sec) == sec \div SecondsPerDay

(* airTime.Year(), airTime.Month(), airTime.Day() of a day number. *)
CivilFromDays(z0) ==
    LET z   == z0 + 719468
        era == z \div 146097
        doe == z - era * 146097
        yoe == (doe - (doe \div 1460) + (doe \div 36524) - (doe \div 146096)) \div 365
        doy == doe - (365 * yoe + (yoe \div 4) - (yoe \div 100))
        mp  == (5 * doy + 2) \div 153
        d   == doy - ((153 * mp + 2) \div 5) + 1
        m   == IF mp < 10 THEN mp + 3 ELSE mp - 9
        y   == yoe + era * 400 + (IF m <= 2 THEN 1 ELSE 0)
    IN  [year |-> y, month |-> m, day |-> d]

(* Day number of a civil date, as time.Date computes it. *)
DaysFromCivil(y0, m, d) ==
    LET y   == IF m <= 2 THEN y0 - 1 ELSE y0
        era == y \div 400
        yoe == y - era * 400
        doy == ((153 * (IF m > 2 THEN m - 3 ELSE m + 9) + 2) \div 5) + d - 1
        doe == yoe * 365 + (yoe \div 4) - (yoe \div 100) + doy
    IN  era * 146097 + doe - 719468

(* time.Date(y, m, d, hh, mm, ss, 0, time.UTC) as epoch seconds. *)
Date(y, m, d, hh, mm, ss) ==
    DaysFromCivil(y, m, d) * SecondsPerDay + hh * 3600 + mm * 60 + ss

(* time.Unix(sec, 0).UTC(): the instant, kept as epoch seconds. *)
Unix(sec) == sec

(* Faulty variant: the airing instant itself is used as the key. *)
DayKeyUntruncated(airTime) == airTime

(* dayKey of an airing instant: main.go line 172. *)
DayKey(airTime) ==
    LET c == CivilFromDays(UnixDays(airTime))
    IN  Date(c.year, c.month, c.day, 0, 0, 0)

(* day.Format("Monday (Jan 02)"): weekday (0 = Sunday), month, day. *)
FormatDay(day) ==
    LET c == CivilFromDays(UnixDays(day))
    IN  [weekday |-> (UnixDays(day) + 4) % 7, month |-> c.month, day |-> c.day]

(* AiringTime.Format("3:04 PM"): 12-hour clock, minute, AM/PM. *)
FormatClock(t) ==
    LET sod  == t - UnixDays(t) * SecondsPerDay
        hour == sod \div 3600
        h12  == IF hour % 12 = 0 THEN 12 ELSE hour % 12
    IN  [hour |-> h12, minute |-> (sod % 3600) \div 60,
         ampm |-> IF hour >= 12 THEN "PM" ELSE "AM"]

----------------------------------------------------------------------------
(* The response body: an abstract JSON document *)

(* JSON value kinds found at a position of the document. *)
Kinds == {"absent", "null", "object", "array", "string", "number"}

(* One element of airingSchedules as it is written in the body.  english  *)
(* is a JSON string or null (the API sends null for a missing title).     *)
JRec(ep, at, romaji, ek, english, score) ==
    [episode |-> ep, airingAt |-> at, romaji |-> romaji,
     english |-> [k |-> ek, s |-> english], averageScore |-> score]

Records ==
    { JRec(1, 1714767300, "Baz", "string", "Bar", 76),   \* 2024-05-03 20:15:00
      JRec(2, 1714653000, "Foo", "null",   "",    0),    \* 2024-05-02 12:30:00
      JRec(3, 1714568400, "Foo", "string", "",    75),   \* 2024-05-01 13:00:00
      JRec(4, 1714521600, "Baz", "string", "Bar", 40),   \* 2024-05-01 00:00:00
      JRec(5, 1714521599, "Foo", "null",   "",    100),  \* 2024-04-30 23:59:59
      JRec(6, 1709251199, "Baz", "string", "Qux", 1),    \* 2024-02-29 23:59:59
      JRec(7, -1,         "Foo", "string", "",    0),    \* 1969-12-31 23:59:59
      JRec(8, 1714694400, "",    "string", "Bar", 77) }  \* 2024-05-03 00:00:00

RecordLists == UNION { [1..n -> Records] : n \in 0..MaxLen }

(* wf: the bytes are syntactically valid JSON.  top, data, page, sched:   *)
(* the kind of value at the top level, at "data", at "data.Page" and at   *)
(* "data.Page.airingSchedules".  errors: the top-level object also has an *)
(* "errors" key.  recs: the elements when sched is an array.              *)
Doc(wf, top, errors, data, page, sched, recs) ==
    [wf |-> wf, top |-> top, errors |-> errors, data |-> data,
     page |-> page, sched |-> sched, recs |-> recs]

(* body before ioutil.ReadAll has returned: no bytes. *)
NoBody == Doc(TRUE, "absent", FALSE, "absent", "absent", "absent", <<>>)

Bodies ==
    { Doc(FALSE, "absent", FALSE, "absent", "absent", "absent", <<>>) }
    \cup { Doc(TRUE, k, FALSE, "absent", "absent", "absent", <<>>) :
             k \in {"null", "array", "string", "number"} }
    \cup { Doc(TRUE, "object", e, k, "absent", "absent", <<>>) :
             e \in BOOLEAN, k \in Kinds \ {"object"} }
    \cup { Doc(TRUE, "object", FALSE, "object", k, "absent", <<>>) :
             k \in Kinds \ {"object"} }
    \cup { Doc(TRUE, "object", FALSE, "object", "object", k, <<>>) :
             k \in Kinds \ {"array"} }
    \cup { Doc(TRUE, "object", e, "object", "object", "array", r) :
             e \in BOOLEAN, r \in RecordLists }

----------------------------------------------------------------------------
(* encoding/json into GraphQLResponse *)

(* Faulty variant: a struct field must be present and an object. *)
StructStrict(k) == k = "object"

(* A struct field accepts an object, and is left at its zero value when   *)
(* the key is absent or null; any other kind is an UnmarshalTypeError.    *)
StructOK(k) == k \in {"absent", "null", "object"}

(* A slice field accepts an array, and stays nil when absent or null. *)
SliceOK(k) == k \in {"absent", "null", "array"}

(* A string field: null leaves the zero value "". *)
DecodeString(v) == IF v.k = "string" THEN v.s ELSE ""

(* One AiringSchedule decoded from its JSON element. *)
DecodeSchedule(j) ==
    [Episode |-> j.episode, AiringAt |-> j.airingAt, Romaji |-> j.romaji,
     English |-> DecodeString(j.english), AverageScore |-> j.averageScore]

(* json.Unmarshal(body, &response): the error, and                        *)
(* response.Data.Page.AiringSchedules.                                    *)
Unmarshal(b) ==
    LET bad == \/ ~b.wf
               \/ ~StructOK(b.top)
               \/ b.top = "object" /\ ~StructOK(b.data)
               \/ b.top = "object" /\ b.data = "object" /\ ~StructOK(b.page)
               \/ b.top = "object" /\ b.data = "object" /\ b.page = "object"
                    /\ ~SliceOK(b.sched)
        full == b.top = "object" /\ b.data = "object" /\ b.page = "object"
                    /\ b.sched = "array"
    IN  [err |-> bad,
         schedules |-> IF ~bad /\ full
                       THEN [i \in 1..Len(b.recs) |-> DecodeSchedule(b.recs[i])]
                       ELSE <<>>]

----------------------------------------------------------------------------
(* organizeShowsByDay *)

EmptyMap == [k \in {} |-> <<>>]

(* Faulty variant: Romaji preferred, English as the fallback. *)
ResolveTitleRomajiFirst(schedule) ==
    IF schedule.Romaji = "" THEN schedule.English ELSE schedule.Romaji

(* Lines 166-169: English, or Romaji when English is empty. *)
ResolveTitle(schedule) ==
    IF schedule.English = "" THEN schedule.Romaji ELSE schedule.English

(* Lines 174-179: the ShowInfo of one schedule. *)
MakeShowInfo(schedule) ==
    [Title |-> ResolveTitle(schedule), EpisodeNumber |-> schedule.Episode,
     AverageScore |-> schedule.AverageScore,
     AiringTime |-> Unix(schedule.AiringAt)]

(* Faulty variant: a show is stored only in a bucket that already exists. *)
AppendToExisting(m, dayKey, show) ==
    IF dayKey \in DOMAIN m THEN [m EXCEPT ![dayKey] = Append(@, show)] ELSE m

(* Faulty variant: the show is put at the front of its bucket. *)
AppendToFront(m, dayKey, show) ==
    IF dayKey \in DOMAIN m
    THEN [m EXCEPT ![dayKey] = <<show>> \o @]
    ELSE [k \in DOMAIN m \cup {dayKey} |-> IF k = dayKey THEN <<show>> ELSE m[k]]

(* Faulty variant: the show replaces the bucket. *)
AppendToOverwrite(m, dayKey, show) ==
    [k \in DOMAIN m \cup {dayKey} |-> IF k = dayKey THEN <<show>> ELSE m[k]]

(* showsByDay[dayKey] = append(showsByDay[dayKey], show) *)
AppendTo(m, dayKey, show) ==
    IF dayKey \in DOMAIN m
    THEN [m EXCEPT ![dayKey] = Append(@, show)]
    ELSE [k \in DOMAIN m \cup {dayKey} |-> IF k = dayKey THEN <<show>> ELSE m[k]]

RECURSIVE OrganizeFrom(_, _, _)
OrganizeFrom(s, i, m) ==
    IF i > Len(s) THEN m
    ELSE LET show == MakeShowInfo(s[i])
         IN  OrganizeFrom(s, i + 1, AppendTo(m, DayKey(show.AiringTime), show))

organizeShowsByDay(s) == OrganizeFrom(s, 1, EmptyMap)

----------------------------------------------------------------------------
(* renderOutput *)

(* A line written to standard output; unused fields hold zero values. *)
NoHdr == [weekday |-> 0, month |-> 0, day |-> 0]
NoClock == [hour |-> 0, minute |-> 0, ampm |-> ""]
NoSuffix == [label |-> "", value |-> 0]

Line(kind, text, day, hdr, title, ep, clock, suffix) ==
    [kind |-> kind, text |-> text, day |-> day, hdr |-> hdr, title |-> title,
     ep |-> ep, clock |-> clock, suffix |-> suffix]

ErrorLine(context, cause) ==
    Line("error", context, 0, NoHdr, cause, 0, NoClock, NoSuffix)
NoEpisodesLine ==
    Line("message", "No new episodes aired in the past week", 0, NoHdr, "", 0,
         NoClock, NoSuffix)
HeaderLine(day) == Line("header", "", day, FormatDay(day), "", 0, NoClock, NoSuffix)
DividerLine == Line("divider", "", 0, NoHdr, "", 0, NoClock, NoSuffix)
BlankLine == Line("blank", "", 0, NoHdr, "", 0, NoClock, NoSuffix)

(* float32(score): nearest value with a 24-bit significand, ties to even. *)
RECURSIVE Ulp(_, _)
Ulp(a, u) == IF a \div u < 16777216 THEN u ELSE Ulp(a, 2 * u)

Float32(n) ==
    LET a == IF n < 0 THEN -n ELSE n
        u == Ulp(a, 1)
        q == a \div u
        r == a % u
        up == 2 * r > u \/ (2 * r = u /\ q % 2 = 1)
        v == (IF up THEN q + 1 ELSE q) * u
    IN  IF n < 0 THEN -v ELSE v

(* renderScore: "* %.0f/100" of float32(score), or "* No rating". *)
renderScore(score) ==
    IF score > 0 THEN [label |-> "score", value |-> Float32(score)]
    ELSE [label |-> "No rating", value |-> 0]

(* Faulty variant: the strong marker from 75 on. *)
EmojiFrom75(score) ==
    IF score >= 75 THEN "star"
    ELSE IF score = 0 THEN "antenna"
    ELSE "sparkles"

(* Lines 210-215: glowing star, satellite antenna or sparkles. *)
Emoji(score) ==
    IF score > 75 THEN "star"
    ELSE IF score = 0 THEN "antenna"
    ELSE "sparkles"

(* Lines 217-225: one show entry. *)
EntryLine(show) ==
    Line("show", Emoji(show.AverageScore), 0, NoHdr, show.Title,
         show.EpisodeNumber, FormatClock(show.AiringTime),
         renderScore(show.AverageScore))

(* Faulty variant: days[i].Before(days[j]). *)
Before(t, u) == t < u

(* days[i].After(days[j]) *)
After(t, u) == t > u

Swap(s, i, j) == [s EXCEPT ![i] = s[j], ![j] = s[i]]

(* sort.Slice on fewer than 12 elements: insertion sort with less = After. *)
RECURSIVE SiftDown(_, _)
SiftDown(s, j) ==
    IF j > 1 /\ After(s[j], s[j - 1]) THEN SiftDown(Swap(s, j, j - 1), j - 1)
    ELSE s

RECURSIVE InsertionSort(_, _)
InsertionSort(s, i) ==
    IF i > Len(s) THEN s ELSE InsertionSort(SiftDown(s, i), i + 1)

SortDays(s) == InsertionSort(s, 2)

(* The orders in which "for day := range showsByDay" may visit the keys. *)
RangeOrders(m) ==
    { s \in [1..Cardinality(DOMAIN m) -> DOMAIN m] :
        \A i, j \in DOMAIN s : i # j => s[i] # s[j] }

(* Lines 199-232: the block of one day. *)
DayBlock(m, sorted, i) ==
    <<HeaderLine(sorted[i]), DividerLine>>
    \o [k \in 1..Len(m[sorted[i]]) |-> EntryLine(m[sorted[i]][k])]
    \o (IF i < Len(sorted) THEN <<BlankLine>> ELSE <<>>)

RECURSIVE RenderFrom(_, _, _)
RenderFrom(m, sorted, i) ==
    IF i > Len(sorted) THEN <<>>
    ELSE DayBlock(m, sorted, i) \o RenderFrom(m, sorted, i + 1)

(* The text handed to appStyle.Render, for keys visited in order ranged. *)
renderOutput(m, ranged) == RenderFrom(m, SortDays(ranged), 1)

----------------------------------------------------------------------------
(* main *)

(* printError(context, err) *)
printError(context, cause) == <<ErrorLine(context, cause)>>

(* Faulty variant: no deferred close. *)
NoClose(open) == open

(* defer resp.Body.Close(), run when main returns. *)
DeferredClose(open) == FALSE

Init ==
    /\ pc = "marshal"
    /\ err = "nil"
    /\ body = NoBody
    /\ bodyOpen = FALSE
    /\ posts = 0
    /\ schedules = <<>>
    /\ showsByDay = EmptyMap
    /\ days = <<>>
    /\ output = <<>>

(* Line 128: json.Marshal succeeds. *)
MarshalOK ==
    /\ pc = "marshal"
    /\ pc' = "post"
    /\ UNCHANGED <<err, body, bodyOpen, posts, schedules, showsByDay, days, output>>

(* Lines 129-132. *)
MarshalFail ==
    /\ pc = "marshal"
    /\ err' = "marshal"
    /\ output' = output \o printError("Error creating request", "marshal")
    /\ pc' = "done"
    /\ UNCHANGED <<body, bodyOpen, posts, schedules, showsByDay, days>>

(* Lines 134, 139: the POST returns a response whose body is open. *)
PostOK ==
    /\ pc = "post"
    /\ posts' = posts + 1
    /\ bodyOpen' = TRUE
    /\ pc' = "read"
    /\ UNCHANGED <<err, body, schedules, showsByDay, days, output>>

(* Lines 135-138: transport error, no response. *)
PostFail ==
    /\ pc = "post"
    /\ posts' = posts + 1
    /\ err' = "post"
    /\ output' = output \o printError("Error making request", "post")
    /\ pc' = "done"
    /\ UNCHANGED <<body, bodyOpen, schedules, showsByDay, days>>

(* Line 141: the whole body is read; the server chooses its content. *)
ReadOK ==
    /\ pc = "read"
    /\ \E b \in Bodies : body' = b
    /\ pc' = "unmarshal"
    /\ UNCHANGED <<err, bodyOpen, posts, schedules, showsByDay, days, output>>

(* Faulty variant: the read error is printed but main does not return. *)
ReadFailNoReturn ==
    /\ pc = "read"
    /\ err' = "read"
    /\ output' = output \o <<ErrorLine("Error reading response", "read")>>
    /\ pc' = "unmarshal"
    /\ UNCHANGED <<body, bodyOpen, posts, schedules, showsByDay, days>>

(* Lines 142-145. *)
ReadFail ==
    /\ pc = "read"
    /\ err' = "read"
    /\ output' = output \o printError("Error reading response", "read")
    /\ bodyOpen' = DeferredClose(bodyOpen)
    /\ pc' = "done"
    /\ UNCHANGED <<body, posts, schedules, showsByDay, days>>

(* Lines 147-148: decoding succeeds. *)
UnmarshalOK ==
    /\ pc = "unmarshal"
    /\ ~Unmarshal(body).err
    /\ schedules' = Unmarshal(body).schedules
    /\ pc' = "organize"
    /\ UNCHANGED <<err, body, bodyOpen, posts, showsByDay, days, output>>

(* Lines 148-151. *)
UnmarshalFail ==
    /\ pc = "unmarshal"
    /\ Unmarshal(body).err
    /\ err' = "decode"
    /\ output' = output \o printError("Error parsing response", "decode")
    /\ bodyOpen' = DeferredClose(bodyOpen)
    /\ pc' = "done"
    /\ UNCHANGED <<body, posts, schedules, showsByDay, days>>

(* Line 153. *)
Organize ==
    /\ pc = "organize"
    /\ showsByDay' = organizeShowsByDay(schedules)
    /\ pc' = "check"
    /\ UNCHANGED <<err, body, bodyOpen, posts, schedules, days, output>>

(* Lines 154-157. *)
NoEpisodes ==
    /\ pc = "check"
    /\ Cardinality(DOMAIN showsByDay) = 0
    /\ output' = output \o <<NoEpisodesLine>>
    /\ bodyOpen' = DeferredClose(bodyOpen)
    /\ pc' = "done"
    /\ UNCHANGED <<err, body, posts, schedules, showsByDay, days>>

(* Line 159: renderOutput; days records the order in which range visited  *)
(* the keys, before sort.Slice.                                           *)
Render ==
    /\ pc = "check"
    /\ Cardinality(DOMAIN showsByDay) # 0
    /\ \E ranged \in RangeOrders(showsByDay) :
         /\ days' = ranged
         /\ output' = output \o renderOutput(showsByDay, ranged)
    /\ bodyOpen' = DeferredClose(bodyOpen)
    /\ pc' = "done"
    /\ UNCHANGED <<err, body, posts, schedules, showsByDay>>

Next ==
    \/ MarshalOK
    \/ MarshalFail
    \/ PostOK
    \/ PostFail
    \/ ReadOK
    \/ ReadFail
    \/ UnmarshalOK
    \/ UnmarshalFail
    \/ Organize
    \/ NoEpisodes
    \/ Render

Spec == Init /\ [][Next]_vars

TypeOK ==
    /\ pc \in {"marshal", "post", "read", "unmarshal", "organize", "check", "done"}
    /\ err \in {"nil", "marshal", "post", "read", "decode"}
    /\ bodyOpen \in BOOLEAN
    /\ posts \in 0..1

----------------------------------------------------------------------------
(* Reading the pipeline's state and its output *)

(* organizeShowsByDay has returned. *)
Organized == pc = "check" \/ (pc = "done" /\ err = "nil")

(* renderOutput has printed the report. *)
Reported == pc = "done" /\ err = "nil" /\ DOMAIN showsByDay # {}

IsHeader(l) == l.kind = "header"
IsShow(l) == l.kind = "show"
Headers == SelectSeq(output, IsHeader)
ShowLines == SelectSeq(output, IsShow)

(* The number of consecutive show lines that start at position i. *)
RECURSIVE RunLen(_)
RunLen(i) ==
    IF i <= Len(output) /\ output[i].kind = "show" THEN 1 + RunLen(i + 1) ELSE 0

(* The show lines printed under the header at position h (after the divider). *)
LinesUnder(h) == SubSeq(output, h + 2, h + 1 + RunLen(h + 2))

(* The schedules of s that air on UTC day number n, in the order of s. *)
RECURSIVE OnDay(_, _)
OnDay(s, n) ==
    IF s = <<>> THEN <<>>
    ELSE IF Head(s).AiringAt \div 86400 = n THEN <<Head(s)>> \o OnDay(Tail(s), n)
    ELSE OnDay(Tail(s), n)

DayNumbers(s) == { s[i].AiringAt \div 86400 : i \in DOMAIN s }

----------------------------------------------------------------------------
(* C1: every input record yields exactly one ShowInfo, stored in exactly  *)
(* one day bucket, and the bucket's key is the airing instant truncated   *)
(* to midnight UTC of its calendar date (same year, month and day, time   *)
(* of day zero).                                                          *)
C1_BucketKey ==
    Organized =>
      /\ Cardinality({ <<d, k>> \in (DOMAIN showsByDay) \X (1..Len(schedules)) :
                         k <= Len(showsByDay[d]) }) = Len(schedules)
      /\ \A i \in DOMAIN schedules :
           Cardinality({ d \in DOMAIN showsByDay :
                           \E k \in DOMAIN showsByDay[d] :
                             /\ showsByDay[d][k].AiringTime = schedules[i].AiringAt
                             /\ showsByDay[d][k].EpisodeNumber = schedules[i].Episode }) = 1
      /\ \A d \in DOMAIN showsByDay : \A k \in DOMAIN showsByDay[d] :
           LET t == showsByDay[d][k].AiringTime
           IN  /\ d % 86400 = 0
               /\ d <= t /\ t < d + 86400
               /\ CivilFromDays(d \div 86400) = CivilFromDays(t \div 86400)

C1_Witness ==
    /\ Organized
    /\ Cardinality(DOMAIN showsByDay) = 2
    /\ 1714521600 \in DOMAIN showsByDay
    /\ 1714435200 \in DOMAIN showsByDay
    /\ \E k \in DOMAIN showsByDay[1714435200] :
         showsByDay[1714435200][k].AiringTime = 1714521599
    /\ \E k \in DOMAIN showsByDay[1714521600] :
         showsByDay[1714521600][k].AiringTime = 1714521600

(* C2: when one of the four steps fails, the run prints one error message *)
(* for that step and stops: no later step has run, no ShowInfo exists,    *)
(* neither a report nor the "no episodes" message is printed, and the     *)
(* POST is not repeated.                                                   *)
C2_FailStops ==
    err # "nil" =>
      /\ pc = "done"
      /\ Len(output) = 1
      /\ output[1].kind = "error"
      /\ output[1].text =
           (CASE err = "marshal" -> "Error creating request"
              [] err = "post" -> "Error making request"
              [] err = "read" -> "Error reading response"
              [] err = "decode" -> "Error parsing response")
      /\ schedules = <<>>
      /\ showsByDay = EmptyMap
      /\ days = <<>>
      /\ posts <= 1
      /\ err = "marshal" => posts = 0
      /\ err \in {"marshal", "post", "read"} => body = NoBody

C2_Witness ==
    /\ err = "decode"
    /\ pc = "done"
    /\ ~body.wf
    /\ output = printError("Error parsing response", "decode")

(* The body has exactly the shape {"data": {"Page": {"airingSchedules": [...]}}}. *)
ExpectedShape(b) ==
    /\ b.wf
    /\ b.top = "object"
    /\ b.data = "object"
    /\ b.page = "object"
    /\ b.sched = "array"

(* The body is not JSON, or holds a value of the wrong JSON type at the   *)
(* top level, at data, at Page or at airingSchedules.                     *)
WrongType(b) ==
    \/ ~b.wf
    \/ b.top \notin {"null", "object"}
    \/ b.data \in {"array", "string", "number"}
    \/ b.page \in {"array", "string", "number"}
    \/ b.sched \in {"object", "string", "number"}

(* C3 as stated: a body of any other top-level shape than the expected    *)
(* one fails decoding, and the run prints the decode error and nothing    *)
(* else.                                                                  *)
C3_OtherShapeFails ==
    (pc = "done" /\ err \in {"nil", "decode"} /\ ~ExpectedShape(body)) =>
      output = printError("Error parsing response", "decode")

(* C3 amended: a body that is not JSON or has a value of the wrong type   *)
(* on the data/Page/airingSchedules path fails decoding and only the      *)
(* decode error is printed; a well-formed body that merely lacks (or      *)
(* nulls) part of the path decodes to an empty list and the run prints    *)
(* the "no episodes" message.                                             *)
C3_WrongTypeFails ==
    (pc = "done" /\ err \in {"nil", "decode"}) =>
      /\ WrongType(body) => output = printError("Error parsing response", "decode")
      /\ (~WrongType(body) /\ ~ExpectedShape(body)) =>
           (err = "nil" /\ output = <<NoEpisodesLine>>)

C3_Witness ==
    /\ pc = "done"
    /\ body.wf /\ body.top = "object" /\ body.errors /\ body.data = "null"
    /\ output = <<NoEpisodesLine>>

(* C4: an empty record list gives an empty mapping, an empty mapping      *)
(* makes the run print the "no episodes" message and nothing of a report, *)
(* and a non-empty record list never gives an empty mapping.              *)
C4_EmptyMapping ==
    /\ (Organized /\ schedules = <<>>) => showsByDay = EmptyMap
    /\ (Organized /\ schedules # <<>>) => DOMAIN showsByDay # {}
    /\ (pc = "done" /\ err = "nil" /\ DOMAIN showsByDay = {}) =>
         (output = <<NoEpisodesLine>> /\ days = <<>>)
    /\ (\E i \in DOMAIN output : output[i].kind \in {"header", "divider", "show", "blank"})
         => DOMAIN showsByDay # {}

C4_Witness ==
    /\ pc = "done"
    /\ ExpectedShape(body)
    /\ body.recs = <<>>
    /\ showsByDay = EmptyMap
    /\ output = <<NoEpisodesLine>>

(* C5: whatever order the map is enumerated in, the day headers are       *)
(* printed in strictly descending order of day key, one per key.          *)
C5_DaysDescending ==
    Reported =>
      /\ \A i, j \in DOMAIN Headers : i < j => Headers[i].day > Headers[j].day
      /\ { Headers[i].day : i \in DOMAIN Headers } = DOMAIN showsByDay
      /\ Len(Headers) = Cardinality(DOMAIN showsByDay)

C5_Witness ==
    /\ Reported
    /\ Len(days) = 3
    /\ days[1] < days[3] /\ days[3] < days[2]
    /\ Len(Headers) = 3

(* C6: under each day header the shows appear in the order their records  *)
(* had in the input list; no step re-sorts the shows of a day.            *)
C6_InputOrder ==
    /\ Organized =>
         \A d \in DOMAIN showsByDay :
           LET in == OnDay(schedules, d \div 86400)
           IN  /\ Len(showsByDay[d]) = Len(in)
               /\ \A k \in DOMAIN in :
                    /\ showsByDay[d][k].EpisodeNumber = in[k].Episode
                    /\ showsByDay[d][k].AiringTime = in[k].AiringAt
    /\ Reported =>
         \A h \in DOMAIN output : output[h].kind = "header" =>
           LET in == OnDay(schedules, output[h].day \div 86400)
               ls == LinesUnder(h)
           IN  /\ Len(ls) = Len(in)
               /\ \A k \in DOMAIN in : ls[k].ep = in[k].Episode

C6_Witness ==
    /\ Reported
    /\ Len(schedules) = 3
    /\ schedules[1].Episode = 4 /\ schedules[2].Episode = 1 /\ schedules[3].Episode = 3
    /\ \E h \in DOMAIN output :
         /\ output[h].kind = "header"
         /\ Len(LinesUnder(h)) = 2
         /\ LinesUnder(h)[1].ep = 4
         /\ LinesUnder(h)[2].ep = 3

(* C7: a decoded response of N >= 1 records over K distinct UTC days is   *)
(* rendered as exactly N show lines and exactly K day headers.            *)
C7_Counts ==
    (pc = "done" /\ err = "nil" /\ Len(schedules) >= 1) =>
      /\ Len(ShowLines) = Len(schedules)
      /\ Len(Headers) = Cardinality(DayNumbers(schedules))

C7_Witness ==
    /\ pc = "done"
    /\ Len(schedules) = 3
    /\ Cardinality(DayNumbers(schedules)) = 2
    /\ Len(ShowLines) = 3
    /\ Len(Headers) = 2

(* C8: each show line's marker is the strong one for a score above 75,    *)
(* the pending one for score 0 and the default one otherwise (75 too);    *)
(* its suffix is "{score}/100" for a score above 0 and "No rating" for    *)
(* score 0, and "0/100" is never printed.                                 *)
C8_ScoreRendering ==
    Reported =>
      \A h \in DOMAIN output : output[h].kind = "header" =>
        LET shows == showsByDay[output[h].day]
            ls == LinesUnder(h)
        IN  /\ Len(ls) = Len(shows)
            /\ \A k \in DOMAIN ls :
                 LET score == shows[k].AverageScore
                 IN  /\ score > 75 => ls[k].text = "star"
                     /\ score = 0 => ls[k].text = "antenna"
                     /\ (score <= 75 /\ score # 0) => ls[k].text = "sparkles"
                     /\ score > 0 => ls[k].suffix = [label |-> "score", value |-> score]
                     /\ score = 0 => ls[k].suffix.label = "No rating"
                     /\ ~(ls[k].suffix.label = "score" /\ ls[k].suffix.value = 0)

C8_Witness ==
    /\ Reported
    /\ \E i, j, k \in DOMAIN output :
         /\ output[i].kind = "show" /\ output[i].text = "sparkles"
         /\ output[i].suffix = [label |-> "score", value |-> 75]
         /\ output[j].kind = "show" /\ output[j].text = "star"
         /\ output[j].suffix = [label |-> "score", value |-> 76]
         /\ output[k].kind = "show" /\ output[k].text = "antenna"
         /\ output[k].suffix.label = "No rating"

(* C9: the resolved title of a record's ShowInfo is its English title     *)
(* when that is non-empty and its romaji title otherwise.                 *)
C9_TitleResolution ==
    Organized =>
      \A d \in DOMAIN showsByDay :
        LET in == OnDay(schedules, d \div 86400)
        IN  /\ Len(showsByDay[d]) = Len(in)
            /\ \A k \in DOMAIN in :
                 /\ in[k].English # "" => showsByDay[d][k].Title = in[k].English
                 /\ in[k].English = "" => showsByDay[d][k].Title = in[k].Romaji

C9_Witness ==
    /\ Organized
    /\ \E d, e \in DOMAIN showsByDay :
         /\ showsByDay[d][1].Title = "Foo" /\ showsByDay[d][1].EpisodeNumber = 2
         /\ showsByDay[e][1].Title = "Bar" /\ showsByDay[e][1].EpisodeNumber = 1

(* C10: once the POST has returned a response, its body is closed by the  *)
(* time the run is over, on every path; a failed POST leaves nothing      *)
(* open; at most one POST is issued.                                      *)
C10_BodyClosed ==
    /\ pc = "done" => ~bodyOpen
    /\ err = "post" => ~bodyOpen
    /\ bodyOpen => posts = 1
    /\ posts <= 1
    /\ pc \in {"read", "unmarshal", "organize", "check"} => bodyOpen

C10_Witness ==
    /\ pc = "done"
    /\ posts = 1
    /\ err = "nil"
    /\ output # <<>>
    /\ ~bodyOpen

====
